---- MODULE Spec2Model ----
(***************************************************************************)
(* A model of the UI difference detector:                                  *)
(*   - compareImages / createHighlightedImage, in the two versions the     *)
(*     repository holds (server/services/comapre.js, called "v2" here, and *)
(*     the earlier draft in unnamed/part_001, called "v1");                *)
(*   - the POST /compare route with its multer disk storage                *)
(*     (unnamed/part_000) and getBase64Image (server/utils/compare.js);    *)
(*   - the persistence layer of unnamed/part_001: the three tables of      *)
(*     initDatabase and the functions that write to them, each awaited     *)
(*     query one step, so that callers interleave between queries.         *)
(*                                                                         *)
(* A model response is a sequence of tokens.  The fence tokens stand for   *)
(* opening line (three backquotes, json, newline) and the closing line     *)
(* (newline, three backquotes) of a fenced block, WS for a run of white    *)
(* space, TXT for a word of prose; string and number tokens stand for JSON *)
(* literals.  The regular expressions and JSON.parse of the source are     *)
(* operators over these sequences.  The blocks of a response are separated *)
(* by white space, so a closing fence is never followed at once by an      *)
(* opening fence.  Canvas coordinates are exact rationals (numerator,      *)
(* denominator) standing for the doubles of the source.  A call is either  *)
(* a call of compareImages or a call of createHighlightedImage on its own, *)
(* with arguments its guard is written for.                                *)
(***************************************************************************)
EXTENDS Integers, Sequences, FiniteSets, TLC

(***************************************************************************)
(* Bounds of the model.                                                    *)
(***************************************************************************)
MaxBlocks == 2
NumCalls == 2
NumUploads == 1
MaxClock == 2
NumStoreCalls == 2
MaxElements == 2
MaxSerial == 2
MaxInvocations == 3

(***************************************************************************)
(* JavaScript values.                                                      *)
(***************************************************************************)
Null == [t |-> "null"]
Undefined == [t |-> "undefined"]
Num(n) == [t |-> "number", n |-> n]
Str(s) == [t |-> "string", s |-> s]
Obj(o) == [t |-> "object", o |-> o]
Arr(a) == [t |-> "array", a |-> a]
EmptyObj == Obj(<<>>)

Falsy(v) ==
  \/ v.t \in {"null", "undefined"}
  \/ v.t = "number" /\ v.n = 0
  \/ v.t = "string" /\ v.s = ""

HasProp(v, k) == v.t = "object" /\ k \in DOMAIN v.o

\* v.k for a v that is neither null nor undefined
Prop(v, k) == IF HasProp(v, k) THEN v.o[k] ELSE Undefined

JsError(name, message) == [name |-> name, message |-> message]
NoError == JsError("", "")
SyntaxError == JsError("SyntaxError", "Unexpected token in JSON")
ExtractError ==
  JsError("Error", "Failed to extract processed dimensions or differences from response")
ReadNull(k) == JsError("TypeError", "Cannot read properties of null (reading '" \o k \o "')")
ReadUndefined(k) ==
  JsError("TypeError", "Cannot read properties of undefined (reading '" \o k \o "')")
NotAFunction(k) == JsError("TypeError", k \o " is not a function")

(***************************************************************************)
(* Tokens of a response text.                                              *)
(***************************************************************************)
FenceOpen == "<fence-json>"
FenceClose == "<fence-end>"
WS == " "
TXT == "text"
NumVal == ("0" :> 0) @@ ("1" :> 1) @@ ("2" :> 2) @@ ("3" :> 3) @@ ("4" :> 4)
NumTok == DOMAIN NumVal
StrTok == {"processed_dimensions", "differences", "image1", "image2", "width",
           "height", "highlight_area", "coordinates", "x1", "y1", "x2", "y2",
           "type", "text_change"}

RECURSIVE SkipWs(_, _)
SkipWs(s, i) == IF i <= Len(s) /\ s[i] = WS THEN SkipWs(s, i + 1) ELSE i

(***************************************************************************)
(* JSON.parse over a token sequence: a recursive descent parser.  A result *)
(* is [ok |-> TRUE, val, pos] (pos: the first token not consumed) or       *)
(* [ok |-> FALSE].                                                         *)
(***************************************************************************)
Fail == [ok |-> FALSE]
Parsed(v, p) == [ok |-> TRUE, val |-> v, pos |-> p]
Tok(s, i) == IF i <= Len(s) THEN s[i] ELSE "<eof>"

RECURSIVE ParseValue(_, _), ParseMembers(_, _, _), ParseElements(_, _, _)
ParseValue(s, i) ==
  LET j == SkipWs(s, i)
      c == Tok(s, j)
  IN  IF c \in NumTok THEN Parsed(Num(NumVal[c]), j + 1)
      ELSE IF c \in StrTok THEN Parsed(Str(c), j + 1)
      ELSE IF c = "{" THEN
        IF Tok(s, SkipWs(s, j + 1)) = "}" THEN Parsed(EmptyObj, SkipWs(s, j + 1) + 1)
        ELSE ParseMembers(s, j + 1, <<>>)
      ELSE IF c = "[" THEN
        IF Tok(s, SkipWs(s, j + 1)) = "]" THEN Parsed(Arr(<<>>), SkipWs(s, j + 1) + 1)
        ELSE ParseElements(s, j + 1, <<>>)
      ELSE Fail

\* after the member k : r.val of an object whose earlier members are acc
AfterMember(s, k, r, acc) ==
  IF ~r.ok THEN Fail
  ELSE LET e == SkipWs(s, r.pos)
       IN  IF Tok(s, e) = "}" THEN Parsed(Obj((k :> r.val) @@ acc), e + 1)
           ELSE IF Tok(s, e) = "," THEN ParseMembers(s, e + 1, (k :> r.val) @@ acc)
           ELSE Fail

\* members of an object after "{" or ","; acc holds the members read so far
\* (the value of a member is parsed once: r ranges over a one-element set)
ParseMembers(s, i, acc) ==
  LET j == SkipWs(s, i)
      k == Tok(s, j)
      c == SkipWs(s, j + 1)
  IN  IF k \notin StrTok \/ Tok(s, c) # ":" THEN Fail
      ELSE CHOOSE out \in {AfterMember(s, k, r, a) :
                             r \in {ParseValue(s, c + 1)}, a \in {acc}} : TRUE

\* after the element r.val of an array whose earlier elements are acc
AfterElement(s, r, acc) ==
  IF ~r.ok THEN Fail
  ELSE LET e == SkipWs(s, r.pos)
       IN  IF Tok(s, e) = "]" THEN Parsed(Arr(Append(acc, r.val)), e + 1)
           ELSE IF Tok(s, e) = "," THEN ParseElements(s, e + 1, Append(acc, r.val))
           ELSE Fail

\* elements of an array after "[" or ","; acc holds the elements read so far
ParseElements(s, i, acc) ==
  CHOOSE out \in {AfterElement(s, r, a) : r \in {ParseValue(s, i)}, a \in {acc}} : TRUE

\* JSON.parse(s): [ok |-> TRUE, val |-> v], or [ok |-> FALSE] for a SyntaxError
JSONparse(s) ==
  CHOOSE out \in {IF r.ok /\ SkipWs(s, r.pos) = Len(s) + 1
                    THEN [ok |-> TRUE, val |-> r.val] ELSE Fail :
                  r \in {ParseValue(s, 1)}} : TRUE

(***************************************************************************)
(* The regular expressions of compareImages.                               *)
(***************************************************************************)
NoMatch == [found |-> FALSE]
Match(s, from, to) == [found |-> TRUE, from |-> from, to |-> to, text |-> SubSeq(s, from, to)]

Min(S) == CHOOSE x \in S : \A y \in S : x <= y

\* the keyed pattern: an opening fence, a brace, optional white space, the quoted
\* key, then as little as possible up to a closing brace followed at once by a
\* closing fence; the leftmost start wins, then the shortest end
KeyedFenceStarts(s, key) ==
  {i \in 1..Len(s) :
     /\ s[i] = FenceOpen
     /\ Tok(s, i + 1) = "{"
     /\ Tok(s, SkipWs(s, i + 2)) = key
     /\ \E j \in (SkipWs(s, i + 2) + 1)..Len(s) : s[j] = "}" /\ Tok(s, j + 1) = FenceClose}

MatchKeyedFence(s, key) ==
  LET starts == KeyedFenceStarts(s, key)
  IN  IF starts = {} THEN NoMatch
      ELSE LET i == Min(starts)
               j == Min({j \in (SkipWs(s, i + 2) + 1)..Len(s) :
                           s[j] = "}" /\ Tok(s, j + 1) = FenceClose})
           IN  Match(s, i, j + 1)

\* the replace call: every opening and closing fence in the match is removed
StripFences(s) == SelectSeq(s, LAMBDA c : c \notin {FenceOpen, FenceClose})

\* the draft's pattern: an opening fence, then as little as possible up to a
\* closing fence; text is the capture group between the two
MatchFence(s) ==
  LET starts == {i \in 1..Len(s) :
                   s[i] = FenceOpen /\ \E j \in (i + 1)..Len(s) : s[j] = FenceClose}
  IN  IF starts = {} THEN NoMatch
      ELSE LET i == Min(starts)
               j == Min({j \in (i + 1)..Len(s) : s[j] = FenceClose})
           IN  Match(s, i + 1, j - 1)

\* the first match of the brace pattern: from the first opening brace that has a
\* closing brace after it to the nearest such closing brace
MatchBrace(s) ==
  LET starts == {i \in 1..Len(s) : s[i] = "{" /\ \E j \in (i + 1)..Len(s) : s[j] = "}"}
  IN  IF starts = {} THEN NoMatch
      ELSE LET i == Min(starts)
               j == Min({j \in (i + 1)..Len(s) : s[j] = "}"})
           IN  Match(s, i, j)

(***************************************************************************)
(* The responses the external model may give: up to MaxBlocks blocks, each *)
(* one of the kinds below, separated by white space.                       *)
(***************************************************************************)
Box(x1, y1, x2, y2) ==
  <<"{", "x1", ":", x1, ",", "y1", ":", y1, ",", "x2", ":", x2, ",", "y2", ":", y2, "}">>
Size(w, h) == <<"{", "width", ":", w, ",", "height", ":", h, "}">>

CoordinatesBox == Box("1", "2", "2", "3")
HighlightBox == Box("0", "1", "2", "4")
OtherBox == Box("1", "1", "3", "2")

\* a difference with both boxes, one with a highlight_area alone, one with coordinates alone
DiffBoth ==
  <<"{", "type", ":", "text_change", ",", "coordinates", ":">> \o CoordinatesBox
    \o <<",", "highlight_area", ":">> \o HighlightBox \o <<"}">>
DiffHighlight == <<"{", "highlight_area", ":">> \o HighlightBox \o <<"}">>
DiffCoordinates == <<"{", "coordinates", ":">> \o OtherBox \o <<"}">>

Fenced(s) == <<FenceOpen>> \o s \o <<FenceClose>>
DifferencesDoc(list) == <<"{", WS, "differences", ":", WS, "[">> \o list \o <<"]", WS, "}">>
DimensionsDoc ==
  <<"{", WS, "processed_dimensions", ":", "{", "image1", ":">> \o Size("4", "2")
    \o <<",", "image2", ":">> \o Size("2", "4") \o <<"}", WS, "}">>

BlockKinds ==
  {"prose", "dimensions", "none", "one", "mixed", "comma", "other", "bare", "bareOne"}

BlockText(k) ==
  CASE k = "prose" -> <<TXT>>
    [] k = "dimensions" -> Fenced(DimensionsDoc)
    [] k = "none" -> Fenced(DifferencesDoc(<<>>))
    [] k = "one" -> Fenced(DifferencesDoc(DiffBoth))
    [] k = "mixed" -> Fenced(DifferencesDoc(DiffHighlight \o <<",">> \o DiffCoordinates))
    [] k = "comma" -> Fenced(<<"{", "differences", ":", "[", "]", ",", "}">>)
    [] k = "other" -> Fenced(<<"{", "type", ":", "text_change", "}">>)
    [] k = "bare" -> DifferencesDoc(<<>>)
    [] k = "bareOne" -> DifferencesDoc(DiffBoth)

RECURSIVE ResponseText(_)
ResponseText(bs) ==
  IF bs = <<>> THEN <<>>
  ELSE IF Len(bs) = 1 THEN BlockText(bs[1])
  ELSE BlockText(bs[1]) \o <<WS>> \o ResponseText(Tail(bs))

Responses == UNION {[1..n -> BlockKinds] : n \in 0..MaxBlocks}

(***************************************************************************)
(* State.                                                                  *)
(***************************************************************************)
VARIABLES
  version,              \* which compareImages module is loaded: "v1" or "v2"
  replies,              \* the responses the external model may give
  entry,                \* per call: the function the caller entered
  pc,                   \* per call: where the call stands
  blocks,               \* per call: the blocks of the response received
  content,              \* per call: response.content[0].text
  processedDimensions,  \* per call: compareImages' local
  differences,          \* per call: compareImages' local, createHighlightedImage's argument
  imagePath,            \* per call: createHighlightedImage's argument
  processedDims,        \* per call: createHighlightedImage's argument
  image,                \* per call: the image loadImage decoded
  rects,                \* per call: the strokeRect/fillRect calls made on the canvas
  outputFilename,       \* per call: the timestamp in the output file's name
  caught,               \* per call: the error createHighlightedImage's catch block logged
  outputPath,           \* per call: what createHighlightedImage returned
  result,               \* per call: what compareImages returned
  error,                \* per call: what compareImages threw
  now,                  \* Date.now()
  outputDir,            \* the output directory: timestamp in the name -> file
  uploads,              \* the uploads to come, per request: field -> extension
  upc,                  \* per request: where the request stands
  files,                \* per request: req.files, field -> stored path
  uploadsDir,           \* the uploads directory: stored path -> the part last written
  thrown,               \* per request: the error the handler's try block threw
  sent,                 \* per request: the responses sent
  comparisons,          \* the rows of table comparisons
  ui_elements,          \* the rows of table ui_elements
  differencesTable,     \* the rows of table differences
  serial,               \* the last value of each table's SERIAL sequence
  op,                   \* per caller: the persistence function called and its arguments
  cursor,               \* per caller: how many items of the list the loop is past
  elementIds,           \* per caller: storeUIElements' local
  settled,              \* per caller: the promise the function returned
  invocations           \* how many calls of the persistence layer were made

callVars ==
  <<version, replies, entry, pc, blocks, content, processedDimensions, differences,
    imagePath, processedDims, image, rects, outputFilename, caught, outputPath, result,
    error, outputDir>>
uploadVars == <<uploads, upc, files, uploadsDir, thrown, sent>>
storeVars ==
  <<comparisons, ui_elements, differencesTable, serial, op, cursor, elementIds, settled,
    invocations>>
vars == <<callVars, uploadVars, storeVars, now>>

Calls == 1..NumCalls
Requests == 1..NumUploads
Callers == 1..NumStoreCalls
Versions == {"v1", "v2"}

(***************************************************************************)
(* compareImages: from the response text to the call of                    *)
(* createHighlightedImage.  An outcome is the error thrown (NoError for    *)
(* none) and the two locals.                                               *)
(***************************************************************************)
Outcome(e, pd, d) == [error |-> e, processedDimensions |-> pd, differences |-> d]

\* a variant that takes an empty difference list for a failed extraction
ExtractionFailedOnEmpty(pd, d) ==
  \/ Falsy(pd)
  \/ Falsy(d)
  \/ Prop(d, "differences").t = "array" /\ Len(Prop(d, "differences").a) = 0

\* if (!processedDimensions || !differences)
ExtractionFailed(pd, d) == Falsy(pd) \/ Falsy(d)

\* the locals after the two match-and-parse steps of comapre.js
ExtractV2(text) ==
  LET dm == MatchKeyedFence(text, "processed_dimensions")
      dp == IF dm.found THEN JSONparse(StripFences(dm.text)) ELSE [ok |-> TRUE, val |-> Null]
      fm == MatchKeyedFence(text, "differences")
      fp == IF fm.found THEN JSONparse(StripFences(fm.text)) ELSE [ok |-> TRUE, val |-> Null]
  IN  IF ~dp.ok THEN Outcome(SyntaxError, Null, Null)
      ELSE IF ~fp.ok THEN Outcome(SyntaxError, dp.val, Null)
      ELSE Outcome(NoError, dp.val, fp.val)

\* processedDimensions.processed_dimensions.image2, the third argument of the call
DimsArgument(pd) ==
  LET inner == Prop(pd, "processed_dimensions")
  IN  IF pd.t = "null" THEN [error |-> ReadNull("processed_dimensions"), val |-> Undefined]
      ELSE IF pd.t = "undefined"
        THEN [error |-> ReadUndefined("processed_dimensions"), val |-> Undefined]
      ELSE IF inner.t = "null" THEN [error |-> ReadNull("image2"), val |-> Undefined]
      ELSE IF inner.t = "undefined" THEN [error |-> ReadUndefined("image2"), val |-> Undefined]
      ELSE [error |-> NoError, val |-> Prop(inner, "image2")]

ParseV2(text) ==
  LET x == ExtractV2(text)
  IN  IF x.error # NoError THEN x
      ELSE IF ExtractionFailed(x.processedDimensions, x.differences)
        THEN Outcome(ExtractError, x.processedDimensions, x.differences)
      ELSE Outcome(DimsArgument(x.processedDimensions).error,
                   x.processedDimensions, x.differences)

\* the draft: the first fenced block, else the first brace-delimited substring
ExtractV1(text) ==
  LET jm == MatchFence(text)
  IN  IF jm.found /\ Len(jm.text) > 0
        THEN LET p == JSONparse(jm.text)
             IN  IF p.ok THEN Outcome(NoError, Undefined, p.val)
                 ELSE Outcome(SyntaxError, Undefined, Null)
      ELSE LET bm == MatchBrace(text)
               p == IF bm.found THEN JSONparse(bm.text) ELSE Fail
           IN  IF p.ok THEN Outcome(NoError, Undefined, p.val)
               ELSE Outcome(NoError, Undefined, Null)

\* console.log(differences.differences[0])
LogFirst(d) ==
  IF d.t = "null" THEN ReadNull("differences")
  ELSE IF d.t = "undefined" THEN ReadUndefined("differences")
  ELSE IF Prop(d, "differences").t = "null" THEN ReadNull("0")
  ELSE IF Prop(d, "differences").t = "undefined" THEN ReadUndefined("0")
  ELSE NoError

ParseV1(text) ==
  LET x == ExtractV1(text)
  IN  IF x.error # NoError THEN x
      ELSE Outcome(LogFirst(x.differences), Undefined, x.differences)

Parse(v, text) == IF v = "v2" THEN ParseV2(text) ELSE ParseV1(text)

\* the image compareImages annotates, and the dimensions it passes along
AnnotatedImage(v) == IF v = "v2" THEN "image2" ELSE "image1"
PassedDims(v, pd) == IF v = "v2" THEN DimsArgument(pd).val ELSE Undefined

(***************************************************************************)
(* createHighlightedImage.  A canvas coordinate is a rational [n, d].      *)
(***************************************************************************)
ImageSizes == {[width |-> 2, height |-> 4], [width |-> 4, height |-> 4],
               [width |-> 3, height |-> 8]}

Ratio(n, d) == [n |-> n, d |-> d]
Times(x, r) == Ratio(x * r.n, r.d)
Minus(a, b) == Ratio(a.n * b.d - b.n * a.d, a.d * b.d)
SameRatio(a, b) == a.n * b.d = b.n * a.d

IsNumber(v) == v.t = "number"

\* if (!differences || !differences.differences)
NothingToHighlight(d) == Falsy(d) \/ Falsy(Prop(d, "differences"))

\* const scaleX = image.width / processedDims.width, and scaleY likewise; the draft
\* draws the coordinates as they come
ScaleX(v, img, dims) ==
  IF v = "v2" THEN Ratio(img.width, Prop(dims, "width").n) ELSE Ratio(1, 1)
\* a variant that scales the y axis by the x factor
ScaleYByWidth(v, img, dims) ==
  IF v = "v2" THEN Ratio(img.width, Prop(dims, "width").n) ELSE Ratio(1, 1)

ScaleY(v, img, dims) ==
  IF v = "v2" THEN Ratio(img.height, Prop(dims, "height").n) ELSE Ratio(1, 1)

\* what makes the synchronous part of the try block throw before anything is drawn
DrawError(v, d, dims) ==
  IF v = "v2" /\ dims.t = "null" THEN ReadNull("width")
  ELSE IF v = "v2" /\ dims.t = "undefined" THEN ReadUndefined("width")
  ELSE IF Prop(d, "differences").t # "array"
    THEN NotAFunction("differences.differences.forEach")
  ELSE NoError

\* if (diff.highlight_area)
Highlighted(diff) == ~Falsy(Prop(diff, "highlight_area"))

\* the canvas ignores a rectangle with a coordinate that is not a finite number
FiniteBox(v, diff, dims) ==
  /\ \A k \in {"x1", "y1", "x2", "y2"} : IsNumber(Prop(Prop(diff, "highlight_area"), k))
  /\ v = "v2" =>
       \A k \in {"width", "height"} : IsNumber(Prop(dims, k)) /\ Prop(dims, k).n # 0

\* the arguments of strokeRect and fillRect for one difference
Rect(v, diff, img, dims) ==
  LET area == Prop(diff, "highlight_area")
      scaledX1 == Times(Prop(area, "x1").n, ScaleX(v, img, dims))
      scaledY1 == Times(Prop(area, "y1").n, ScaleY(v, img, dims))
      scaledX2 == Times(Prop(area, "x2").n, ScaleX(v, img, dims))
      scaledY2 == Times(Prop(area, "y2").n, ScaleY(v, img, dims))
  IN  [x |-> scaledX1, y |-> scaledY1,
       width |-> Minus(scaledX2, scaledX1), height |-> Minus(scaledY2, scaledY1)]

\* differences.differences.forEach(...): the rectangles drawn, in order
DrawnRects(v, d, img, dims) ==
  LET drawn == SelectSeq(Prop(d, "differences").a,
                         LAMBDA diff : Highlighted(diff) /\ FiniteBox(v, diff, dims))
  IN  [i \in 1..Len(drawn) |-> Rect(v, drawn[i], img, dims)]

\* path.join(outputDir, outputFilename), the file named by its timestamp
OutputPath(stamp) == [t |-> "path", stamp |-> stamp]

\* the return value of compareImages
Result(v, pd, d, text, path) ==
  IF v = "v2"
    THEN [processedDimensions |-> pd, differences |-> d, analysis |-> text,
          highlightedImagePath |-> path]
    ELSE [differences |-> d, analysis |-> text, highlightedImagePath |-> path]
NoResult == [none |-> TRUE]

ReadFileError == JsError("Error", "ENOENT: no such file or directory")
ApiError == JsError("APIError", "the request to the model failed")

(***************************************************************************)
(* The steps of a call.                                                    *)
(***************************************************************************)
Set(f, c, x) == [f EXCEPT ![c] = x]

Throw(c, e) ==
  /\ pc' = Set(pc, c, "threw")
  /\ error' = Set(error, c, e)

\* await fs.readFile(image1Path), then await fs.readFile(image2Path)
ReadFile(c) ==
  /\ pc[c] \in {"read1", "read2"}
  /\ \/ pc' = Set(pc, c, IF pc[c] = "read1" THEN "read2" ELSE "request") /\ UNCHANGED error
     \/ Throw(c, ReadFileError)
  /\ UNCHANGED <<version, replies, entry, blocks, content, processedDimensions, differences,
                 imagePath, processedDims, image, rects, outputFilename, caught, outputPath,
                 result, outputDir, uploadVars, storeVars, now>>

\* await anthropic.messages.create(...); const content = response.content[0].text
MessagesCreate(c) ==
  /\ pc[c] = "request"
  /\ \/ \E bs \in replies :
          /\ blocks' = Set(blocks, c, bs)
          /\ content' = Set(content, c, ResponseText(bs))
          /\ pc' = Set(pc, c, "parse")
          /\ UNCHANGED error
     \/ Throw(c, ApiError) /\ UNCHANGED <<blocks, content>>
  /\ UNCHANGED <<version, replies, entry, processedDimensions, differences, imagePath,
                 processedDims, image, rects, outputFilename, caught, outputPath, result,
                 outputDir, uploadVars, storeVars, now>>

\* the extraction, up to the call of createHighlightedImage
ParseResponse(c) ==
  /\ pc[c] = "parse"
  /\ LET x == Parse(version, content[c])
     IN  /\ processedDimensions' = Set(processedDimensions, c, x.processedDimensions)
         /\ differences' = Set(differences, c, x.differences)
         /\ IF x.error # NoError
              THEN Throw(c, x.error) /\ UNCHANGED <<imagePath, processedDims>>
              ELSE /\ pc' = Set(pc, c, "highlight")
                   /\ imagePath' = Set(imagePath, c, AnnotatedImage(version))
                   /\ processedDims' =
                        Set(processedDims, c, PassedDims(version, x.processedDimensions))
                   /\ UNCHANGED error
  /\ UNCHANGED <<version, replies, entry, blocks, content, image, rects, outputFilename,
                 caught, outputPath, result, outputDir, uploadVars, storeVars, now>>

ChiReturn(c, path) ==
  /\ pc' = Set(pc, c, "highlighted")
  /\ outputPath' = Set(outputPath, c, path)

\* catch (error) { console.error(...); return null; }
ChiCatch(c, e) ==
  /\ caught' = Set(caught, c, e)
  /\ ChiReturn(c, Null)

\* ensureOutputDir(): the output directory is there, made if it was absent (TRUE),
\* or it cannot be made and the call throws (FALSE)
EnsureOutputDir == {TRUE, FALSE}

LoadImageError == JsError("Error", "Unsupported image type")
OutputDirError == JsError("Error", "EACCES: permission denied, mkdir")
WriteFileError == JsError("Error", "ENOSPC: no space left on device, write")

\* the guard at the top of createHighlightedImage, then the call of loadImage
EnterHighlight(c) ==
  /\ pc[c] = "highlight"
  /\ IF NothingToHighlight(differences[c])
       THEN ChiReturn(c, Null)
       ELSE pc' = Set(pc, c, "loadImage") /\ UNCHANGED outputPath
  /\ UNCHANGED <<version, replies, entry, blocks, content, processedDimensions, differences,
                 imagePath, processedDims, image, rects, outputFilename, caught, result,
                 error, outputDir, uploadVars, storeVars, now>>

\* await loadImage(imagePath): the image decoded, or the catch block
LoadImage(c) ==
  /\ pc[c] = "loadImage"
  /\ \/ \E size \in ImageSizes :
          /\ image' = Set(image, c, size)
          /\ pc' = Set(pc, c, "draw")
          /\ UNCHANGED <<outputPath, caught>>
     \/ ChiCatch(c, LoadImageError) /\ UNCHANGED image
  /\ UNCHANGED <<version, replies, entry, blocks, content, processedDimensions, differences,
                 imagePath, processedDims, rects, outputFilename, result, error, outputDir,
                 uploadVars, storeVars, now>>

\* from createCanvas to the call of fs.writeFile: the rectangles (rects records the
\* strokeRect/fillRect pairs; the draft's corner dots are left out), ensureOutputDir
\* and the file name from Date.now(); any throw ends in the catch block
Draw(c) ==
  /\ pc[c] = "draw"
  /\ IF DrawError(version, differences[c], processedDims[c]) # NoError
       THEN /\ ChiCatch(c, DrawError(version, differences[c], processedDims[c]))
            /\ UNCHANGED <<rects, outputFilename>>
       ELSE /\ rects' = Set(rects, c, DrawnRects(version, differences[c], image[c],
                                                 processedDims[c]))
            /\ \E made \in EnsureOutputDir :
                 IF made
                   THEN /\ outputFilename' = Set(outputFilename, c, now)
                        /\ pc' = Set(pc, c, "writeFile")
                        /\ UNCHANGED <<outputPath, caught>>
                   ELSE ChiCatch(c, OutputDirError) /\ UNCHANGED outputFilename
  /\ UNCHANGED <<version, replies, entry, blocks, content, processedDimensions, differences,
                 imagePath, processedDims, image, result, error, outputDir, uploadVars, storeVars, now>>

\* await fs.writeFile(outputPath, buffer): the file written, or the catch block
WriteFile(c) ==
  /\ pc[c] = "writeFile"
  /\ \/ /\ outputDir' = (outputFilename[c] :>
                           [by |-> c, image |-> image[c], rects |-> rects[c]]) @@ outputDir
        /\ ChiReturn(c, OutputPath(outputFilename[c]))
        /\ UNCHANGED caught
     \/ ChiCatch(c, WriteFileError) /\ UNCHANGED outputDir
  /\ UNCHANGED <<version, replies, entry, blocks, content, processedDimensions, differences,
                 imagePath, processedDims, image, rects, outputFilename, result, error,
                 uploadVars, storeVars, now>>

\* compareImages returns its result
Return(c) ==
  /\ pc[c] = "highlighted"
  /\ entry[c] = "compareImages"
  /\ pc' = Set(pc, c, "returned")
  /\ result' = Set(result, c, Result(version, processedDimensions[c], differences[c],
                                     content[c], outputPath[c]))
  /\ UNCHANGED <<version, replies, entry, blocks, content, processedDimensions, differences,
                 imagePath, processedDims, image, rects, outputFilename, caught, outputPath,
                 error, outputDir, uploadVars, storeVars, now>>

\* the clock: Date.now() never goes back; it is left alone once no call and no
\* request has a Date.now() ahead of it
ClockWatched ==
  \/ \E c \in Calls : pc[c] \in {"read1", "read2", "request", "parse", "highlight",
                                  "loadImage", "draw"}
  \/ \E q \in Requests : upc[q] = "part"

Tick ==
  /\ now < MaxClock
  /\ ClockWatched
  /\ now' = now + 1
  /\ UNCHANGED <<callVars, uploadVars, storeVars>>

(***************************************************************************)
(* The POST /compare route: multer's disk storage, then the handler.       *)
(***************************************************************************)
Fields == <<"baselineImage", "comparisonImage">>
Extensions == {".png", ".jpg"}

\* the multipart bodies a client may send: each field absent or a file with an extension
Bodies == UNION {[fs -> Extensions] : fs \in SUBSET {Fields[1], Fields[2]}}

\* filename: Date.now() + path.extname(file.originalname), under uploadsDir
StoredPath(time, ext) == [stamp |-> time, ext |-> ext]

\* the message the model returns to the route
Message == [role |-> "assistant", content |-> "a description of the image"]

\* res.json({ success: true, ...message })
SuccessEnvelope(message) == [status |-> 200, body |-> message @@ [success |-> TRUE]]

\* res.status(500).json({ success: false, error: error.message })
FailureEnvelope(e) == [status |-> 500, body |-> [success |-> FALSE, error |-> e.message]]

\* the first field at or after position i that the body carries, as a position in
\* Fields; Len(Fields) + 1 if there is none
RECURSIVE NextPart(_, _)
NextPart(body, i) ==
  IF i > Len(Fields) \/ Fields[i] \in DOMAIN body THEN i ELSE NextPart(body, i + 1)

UploadPc(body, i) == IF NextPart(body, i) > Len(Fields) THEN "handler" ELSE "part"

\* multer stores the next file of the request under the name the filename callback gives
StoreFile(q) ==
  /\ upc[q] = "part"
  /\ LET i == NextPart(uploads[q], Len(files[q].seen) + 1)
         path == StoredPath(now, uploads[q][Fields[i]])
     IN  /\ files' = Set(files, q, [seen |-> SubSeq(Fields, 1, i),
                                    paths |-> (Fields[i] :> path) @@ files[q].paths])
         /\ uploadsDir' = (path :> [request |-> q, field |-> Fields[i]]) @@ uploadsDir
         /\ upc' = Set(upc, q, UploadPc(uploads[q], i + 1))
  /\ UNCHANGED <<uploads, thrown, sent, callVars, storeVars, now>>

Caught(q, e) ==
  /\ thrown' = Set(thrown, q, e)
  /\ upc' = Set(upc, q, "catch")

\* req.files.baselineImage[0].path and req.files.comparisonImage[0].path
ReadPaths(q) ==
  /\ upc[q] = "handler"
  /\ IF \E i \in 1..Len(Fields) : Fields[i] \notin DOMAIN files[q].paths
       THEN Caught(q, ReadUndefined("0"))
       ELSE upc' = Set(upc, q, "base64-1") /\ UNCHANGED thrown
  /\ UNCHANGED <<uploads, files, uploadsDir, sent, callVars, storeVars, now>>

\* await getBase64Image(path): the file read, or the error logged and thrown again
GetBase64Image(q) ==
  /\ upc[q] \in {"base64-1", "base64-2"}
  /\ \/ upc' = Set(upc, q, IF upc[q] = "base64-1" THEN "base64-2" ELSE "request")
        /\ UNCHANGED thrown
     \/ Caught(q, ReadFileError)
  /\ UNCHANGED <<uploads, files, uploadsDir, sent, callVars, storeVars, now>>

\* await anthropic.messages.create(...), then res.json of the success envelope
Describe(q) ==
  /\ upc[q] = "request"
  /\ \/ /\ sent' = Set(sent, q, Append(sent[q], SuccessEnvelope(Message)))
        /\ upc' = Set(upc, q, "done")
        /\ UNCHANGED thrown
     \/ Caught(q, ApiError) /\ UNCHANGED sent
  /\ UNCHANGED <<uploads, files, uploadsDir, callVars, storeVars, now>>

\* a variant of the catch block that sends nothing
CatchSilently(q) ==
  /\ upc[q] = "catch"
  /\ upc' = Set(upc, q, "done")
  /\ UNCHANGED <<uploads, files, uploadsDir, thrown, sent, callVars, storeVars, now>>

\* the catch block of the handler
Catch(q) ==
  /\ upc[q] = "catch"
  /\ sent' = Set(sent, q, Append(sent[q], FailureEnvelope(thrown[q])))
  /\ upc' = Set(upc, q, "done")
  /\ UNCHANGED <<uploads, files, uploadsDir, thrown, callVars, storeVars, now>>

(***************************************************************************)
(* The persistence layer: the tables initDatabase creates and the          *)
(* functions that write to them.  A row keeps the columns the functions    *)
(* and the constraints depend on.  Every pool.query is one statement, run  *)
(* by the database in one step; a function that awaits several queries     *)
(* takes several steps, and other callers run in between.  The two         *)
(* functions that only read (getComparisonById, getAllComparisons) leave   *)
(* the tables as they are.                                                 *)
(***************************************************************************)
\* the value a query parameter is sent as: undefined goes as NULL, like null
Param(v) == IF v.t = "undefined" THEN Null ELSE v

\* the errors a query is rejected with
ForeignKeyViolation ==
  JsError("error", "insert or update on table violates foreign key constraint")
QueryError == JsError("Error", "timeout exceeded when trying to connect")

\* the promise of an async function
NotCalled == [state |-> "none"]
Pending == [state |-> "pending"]
Fulfilled(v) == [state |-> "fulfilled", value |-> v]
Rejected(e) == [state |-> "rejected", reason |-> e]

\* the arguments callers pass
ComparisonIds == {Null} \cup {Num(n) : n \in 1..MaxSerial}
Element(type) == Obj("elementType" :> Str(type))
Elements == {Element("button"), Element("label"), Null}
Diff(change) == Obj("changeType" :> Str(change))
Diffs == {Diff("modified"), Null}
Lists(S) == UNION {[1..n -> S] : n \in 0..MaxElements}

StoreOps ==
  {[fn |-> "insertComparison", comparisonId |-> Undefined, items |-> <<>>]}
    \cup {[fn |-> f, comparisonId |-> id, items |-> <<>>] :
            f \in {"updateComparisonWithResults", "deleteComparison"}, id \in ComparisonIds}
    \cup {[fn |-> "storeUIElements", comparisonId |-> id, items |-> l] :
            id \in ComparisonIds, l \in Lists(Elements)}
    \cup {[fn |-> "storeDifferences", comparisonId |-> id, items |-> l] :
            id \in ComparisonIds, l \in Lists(Diffs)}

\* comparison_id INTEGER REFERENCES comparisons(id): a NULL refers to nothing and
\* passes, any other value must be the id of a row of comparisons
References(cid) == cid = Null \/ \E r \in comparisons : cid = Num(r.id)

Fulfil(s, v) == settled' = Set(settled, s, Fulfilled(v))
Reject(s, e) == settled' = Set(settled, s, Rejected(e))
Running(s, fn) == settled[s] = Pending /\ op[s].fn = fn

\* a caller calls one of the functions, or runs the delete statement
Invoke(s) ==
  /\ settled[s] # Pending
  /\ invocations < MaxInvocations
  /\ invocations' = invocations + 1
  /\ \E o \in StoreOps : op' = Set(op, s, o)
  /\ cursor' = Set(cursor, s, 0)
  /\ elementIds' = Set(elementIds, s, <<>>)
  /\ settled' = Set(settled, s, Pending)
  /\ UNCHANGED <<comparisons, ui_elements, differencesTable, serial, callVars, uploadVars, now>>

\* INSERT INTO comparisons ... RETURNING id; return result.rows[0].id
InsertComparison(s) ==
  /\ Running(s, "insertComparison")
  /\ \/ /\ serial.comparisons < MaxSerial
        /\ LET id == serial.comparisons + 1
           IN  /\ serial' = [serial EXCEPT !.comparisons = id]
               /\ comparisons' = comparisons \cup
                    {[id |-> id, diff_image_path |-> Null, report_data |-> Null]}
               /\ Fulfil(s, Num(id))
     \/ /\ Reject(s, QueryError)
        /\ UNCHANGED <<serial, comparisons>>
  /\ UNCHANGED <<ui_elements, differencesTable, op, cursor, elementIds, invocations, callVars,
                 uploadVars, now>>

\* UPDATE comparisons SET diff_image_path = $1, report_data = $2 WHERE id = $3
UpdateComparisonWithResults(s) ==
  /\ Running(s, "updateComparisonWithResults")
  /\ \/ /\ comparisons' =
             {IF Num(r.id) = op[s].comparisonId
                THEN [r EXCEPT !.diff_image_path = Str("diff.png"), !.report_data = Str("{}")]
                ELSE r : r \in comparisons}
        /\ Fulfil(s, Undefined)
     \/ /\ Reject(s, QueryError)
        /\ UNCHANGED comparisons
  /\ UNCHANGED <<ui_elements, differencesTable, serial, op, cursor, elementIds, invocations, callVars,
                 uploadVars, now>>

\* one turn of the loop of storeUIElements: the INSERT INTO ui_elements of the next
\* element and the push of its id; after the last turn, return elementIds
StoreUIElements(s) ==
  /\ Running(s, "storeUIElements")
  /\ LET elements == op[s].items
         i == cursor[s] + 1
     IN  IF i > Len(elements)
           THEN /\ Fulfil(s, Arr(elementIds[s]))
                /\ UNCHANGED <<ui_elements, serial, cursor, elementIds>>
         ELSE IF elements[i].t = "null"
           THEN /\ Reject(s, ReadNull("elementType"))
                /\ UNCHANGED <<ui_elements, serial, cursor, elementIds>>
         ELSE \/ /\ Reject(s, QueryError)
                 /\ UNCHANGED <<ui_elements, serial, cursor, elementIds>>
              \/ /\ serial.ui_elements < MaxSerial
                 /\ LET id == serial.ui_elements + 1
                    IN  /\ serial' = [serial EXCEPT !.ui_elements = id]
                        /\ IF References(Param(op[s].comparisonId))
                             THEN /\ ui_elements' = ui_elements \cup
                                       {[id |-> id,
                                         comparison_id |-> Param(op[s].comparisonId),
                                         element_type |-> Param(Prop(elements[i], "elementType")),
                                         changed |-> FALSE]}
                                  /\ elementIds' = Set(elementIds, s, Append(elementIds[s], id))
                                  /\ cursor' = Set(cursor, s, i)
                                  /\ IF i = Len(elements)
                                       THEN Fulfil(s, Arr(Append(elementIds[s], id)))
                                       ELSE UNCHANGED settled
                           ELSE /\ Reject(s, ForeignKeyViolation)
                                /\ UNCHANGED <<ui_elements, cursor, elementIds>>
  /\ UNCHANGED <<comparisons, differencesTable, op, invocations, callVars, uploadVars, now>>

\* one turn of the loop of storeDifferences: the INSERT INTO differences of the next
\* difference; element_id is not among the columns and stays NULL
StoreDifferences(s) ==
  /\ Running(s, "storeDifferences")
  /\ LET diffs == op[s].items
         i == cursor[s] + 1
     IN  IF i > Len(diffs)
           THEN /\ Fulfil(s, Undefined)
                /\ UNCHANGED <<differencesTable, serial, cursor>>
         ELSE IF diffs[i].t = "null"
           THEN /\ Reject(s, ReadNull("changeType"))
                /\ UNCHANGED <<differencesTable, serial, cursor>>
         ELSE \/ /\ Reject(s, QueryError)
                 /\ UNCHANGED <<differencesTable, serial, cursor>>
              \/ /\ serial.differences < MaxSerial
                 /\ LET id == serial.differences + 1
                    IN  /\ serial' = [serial EXCEPT !.differences = id]
                        /\ IF References(Param(op[s].comparisonId))
                             THEN /\ differencesTable' = differencesTable \cup
                                       {[id |-> id,
                                         comparison_id |-> Param(op[s].comparisonId),
                                         element_id |-> Null,
                                         change_type |-> Param(Prop(diffs[i], "changeType"))]}
                                  /\ cursor' = Set(cursor, s, i)
                                  /\ IF i = Len(diffs)
                                       THEN Fulfil(s, Undefined)
                                       ELSE UNCHANGED settled
                           ELSE /\ Reject(s, ForeignKeyViolation)
                                /\ UNCHANGED <<differencesTable, cursor>>
  /\ UNCHANGED <<comparisons, ui_elements, op, elementIds, invocations, callVars, uploadVars, now>>

\* DELETE FROM comparisons WHERE id = $1 under the constraints of initDatabase: the
\* rows of ui_elements and differences that reference the comparison go with it
\* (ON DELETE CASCADE); a difference left behind that references a deleted element
\* rejects the statement (element_id has no ON DELETE clause)
DeleteComparison(s) ==
  /\ Running(s, "deleteComparison")
  /\ LET cid == op[s].comparisonId
         elementsGone == {e \in ui_elements : e.comparison_id = cid}
         differencesGone == {d \in differencesTable : d.comparison_id = cid}
         blocked == \E d \in differencesTable \ differencesGone :
                      \E e \in elementsGone : d.element_id = Num(e.id)
     IN  \/ /\ Reject(s, QueryError)
            /\ UNCHANGED <<comparisons, ui_elements, differencesTable>>
         \/ IF cid = Null \/ ~\E r \in comparisons : Num(r.id) = cid
              THEN /\ Fulfil(s, Undefined)
                   /\ UNCHANGED <<comparisons, ui_elements, differencesTable>>
            ELSE IF blocked
              THEN /\ Reject(s, ForeignKeyViolation)
                   /\ UNCHANGED <<comparisons, ui_elements, differencesTable>>
            ELSE /\ comparisons' = {r \in comparisons : Num(r.id) # cid}
                 /\ ui_elements' = ui_elements \ elementsGone
                 /\ differencesTable' = differencesTable \ differencesGone
                 /\ Fulfil(s, Undefined)
  /\ UNCHANGED <<serial, op, cursor, elementIds, invocations, callVars, uploadVars, now>>

(***************************************************************************)
(* Initial states and specifications.                                      *)
(***************************************************************************)
Parsed1(doc) == JSONparse(doc).val

\* the arguments of a call of createHighlightedImage on its own
DirectDifferences ==
  {Null, EmptyObj, Parsed1(DifferencesDoc(<<>>)), Parsed1(DifferencesDoc(DiffBoth)),
   Parsed1(DifferencesDoc(DiffHighlight \o <<",">> \o DiffCoordinates))}
DirectDims(v) == IF v = "v2" THEN Parsed1(Size("2", "4")) ELSE Undefined

NoCalls ==
  /\ version \in Versions
  /\ replies = {}
  /\ entry = [c \in Calls |-> "none"]
  /\ pc = [c \in Calls |-> "idle"]
  /\ blocks = [c \in Calls |-> <<>>]
  /\ content = [c \in Calls |-> <<>>]
  /\ processedDimensions = [c \in Calls |-> Null]
  /\ differences = [c \in Calls |-> Null]
  /\ imagePath = [c \in Calls |-> ""]
  /\ processedDims = [c \in Calls |-> Undefined]
  /\ image = [c \in Calls |-> [width |-> 0, height |-> 0]]
  /\ rects = [c \in Calls |-> <<>>]
  /\ outputFilename = [c \in Calls |-> 0]
  /\ caught = [c \in Calls |-> NoError]
  /\ outputPath = [c \in Calls |-> Undefined]
  /\ result = [c \in Calls |-> NoResult]
  /\ error = [c \in Calls |-> NoError]
  /\ outputDir = <<>>

\* the calls of `active` are about to start, each of compareImages or of
\* createHighlightedImage on its own, and the model answers from `canReply`
InitCalls(active, canReply) ==
  /\ version \in Versions
  /\ replies = canReply
  /\ entry \in [Calls -> {"compareImages", "createHighlightedImage", "none"}]
  /\ \A c \in Calls : entry[c] = "none" <=> c \notin active
  /\ pc = [c \in Calls |-> CASE entry[c] = "compareImages" -> "read1"
                             [] entry[c] = "createHighlightedImage" -> "highlight"
                             [] OTHER -> "idle"]
  /\ blocks = [c \in Calls |-> <<>>]
  /\ content = [c \in Calls |-> <<>>]
  /\ processedDimensions = [c \in Calls |-> Null]
  /\ differences \in [Calls -> DirectDifferences]
  /\ \A c \in Calls : entry[c] # "createHighlightedImage" => differences[c] = Null
  /\ imagePath = [c \in Calls |-> IF entry[c] = "createHighlightedImage"
                                    THEN AnnotatedImage(version) ELSE ""]
  /\ processedDims = [c \in Calls |-> IF entry[c] = "createHighlightedImage"
                                        THEN DirectDims(version) ELSE Undefined]
  /\ image = [c \in Calls |-> [width |-> 0, height |-> 0]]
  /\ rects = [c \in Calls |-> <<>>]
  /\ outputFilename = [c \in Calls |-> 0]
  /\ caught = [c \in Calls |-> NoError]
  /\ outputPath = [c \in Calls |-> Undefined]
  /\ result = [c \in Calls |-> NoResult]
  /\ error = [c \in Calls |-> NoError]
  /\ outputDir = <<>>

\* the tables as initDatabase creates them, and no caller yet
NoStore ==
  /\ comparisons = {}
  /\ ui_elements = {}
  /\ differencesTable = {}
  /\ serial = [comparisons |-> 0, ui_elements |-> 0, differences |-> 0]
  /\ op = [s \in Callers |-> [fn |-> "none", comparisonId |-> Undefined, items |-> <<>>]]
  /\ cursor = [s \in Callers |-> 0]
  /\ elementIds = [s \in Callers |-> <<>>]
  /\ settled = [s \in Callers |-> NotCalled]
  /\ invocations = 0

NoUploads ==
  /\ uploads = [q \in Requests |-> <<>>]
  /\ upc = [q \in Requests |-> "idle"]
  /\ files = [q \in Requests |-> [seen |-> <<>>, paths |-> <<>>]]
  /\ uploadsDir = <<>>
  /\ thrown = [q \in Requests |-> NoError]
  /\ sent = [q \in Requests |-> <<>>]

InitUploads ==
  /\ uploads \in [Requests -> Bodies]
  /\ upc = [q \in Requests |-> UploadPc(uploads[q], 1)]
  /\ files = [q \in Requests |-> [seen |-> <<>>, paths |-> <<>>]]
  /\ uploadsDir = <<>>
  /\ thrown = [q \in Requests |-> NoError]
  /\ sent = [q \in Requests |-> <<>>]

NextCalls ==
  \/ \E c \in Calls :
       \/ ReadFile(c)
       \/ MessagesCreate(c)
       \/ ParseResponse(c)
       \/ EnterHighlight(c)
       \/ LoadImage(c)
       \/ Draw(c)
       \/ WriteFile(c)
       \/ Return(c)
  \/ Tick

NextStore ==
  \E s \in Callers :
    \/ Invoke(s)
    \/ InsertComparison(s)
    \/ UpdateComparisonWithResults(s)
    \/ StoreUIElements(s)
    \/ StoreDifferences(s)
    \/ DeleteComparison(s)

NextUploads ==
  \/ \E q \in Requests :
       \/ StoreFile(q)
       \/ ReadPaths(q)
       \/ GetBase64Image(q)
       \/ Describe(q)
       \/ Catch(q)
  \/ Tick

\* one call, any response of up to MaxBlocks blocks
Init == InitCalls({1}, Responses) /\ NoUploads /\ NoStore /\ now = 0
Spec == Init /\ [][NextCalls]_vars

\* concurrent calls, the model answering with a differences block, with or without
\* a dimensions block before it
ConcurrentReplies == {<<"one">>, <<"dimensions", "one">>}
InitConcurrent == InitCalls(Calls, ConcurrentReplies) /\ NoUploads /\ NoStore /\ now = 0
SpecConcurrent == InitConcurrent /\ [][NextCalls]_vars

\* concurrent requests to the route
InitRoute == NoCalls /\ InitUploads /\ NoStore /\ now = 0
SpecRoute == InitRoute /\ [][NextUploads]_vars

\* concurrent callers of the persistence layer, on the tables as created
InitStore == NoCalls /\ version = "v1" /\ NoUploads /\ NoStore /\ now = 0
SpecStore == InitStore /\ [][NextStore]_vars

(***************************************************************************)
(* The claims.                                                             *)
(***************************************************************************)
\* the call threw while extracting, not while reading the files or calling the model
ParseThrew(c) == pc[c] = "threw" /\ error[c] \notin {ReadFileError, ApiError}
\* the call reached createHighlightedImage
Reached(c) == pc[c] \in {"highlight", "loadImage", "draw", "writeFile", "highlighted", "returned"}
\* a call of compareImages that is past its extraction
Extracted(c) == entry[c] = "compareImages" /\ (ParseThrew(c) \/ Reached(c))

FoundDimensions(text) == MatchKeyedFence(text, "processed_dimensions").found
FoundDifferences(text) == MatchKeyedFence(text, "differences").found

Count(bs, kinds) == Cardinality({i \in 1..Len(bs) : bs[i] \in kinds})
\* the only JSON payload of the response is the empty differences object
OnlyEmptyDifferences(bs) ==
  Count(bs, {"none", "bare"}) = 1 /\ Count(bs, BlockKinds \ {"none", "bare", "prose"}) = 0
\* a fenced dimensions block and the fenced empty differences object, and prose
EmptyWithDimensions(bs) ==
  /\ Count(bs, {"none"}) = 1
  /\ Count(bs, {"dimensions"}) = 1
  /\ Count(bs, BlockKinds \ {"none", "dimensions", "prose"}) = 0
EmptyList(d) ==
  HasProp(d, "differences") /\ Prop(d, "differences").t = "array"
    /\ Len(Prop(d, "differences").a) = 0

\* C1 (as claimed): a call of compareImages that finds one of the two payloads
\* without the other fails, and does not reach createHighlightedImage.
C1_OnePayloadAloneFails ==
  \A c \in Calls :
    Extracted(c) /\ FoundDimensions(content[c]) # FoundDifferences(content[c])
      => ParseThrew(c)

\* C2 (as claimed): a response whose only JSON payload is the empty differences
\* object gives compareImages an explicit empty list and no error.
C2_EmptyListNeverAnError ==
  \A c \in Calls :
    Extracted(c) /\ OnlyEmptyDifferences(blocks[c])
      => Reached(c) /\ EmptyList(differences[c])

\* C2 (as amended): the empty differences object is parsed to an explicit empty
\* list and is no error for the draft when it is the only JSON payload, and for
\* comapre.js when it is fenced and a fenced dimensions block comes with it; alone,
\* it makes comapre.js fail with its extraction error.
C2_EmptyListIsAResult ==
  \A c \in Calls :
    Extracted(c) =>
      /\ version = "v1" /\ OnlyEmptyDifferences(blocks[c])
           => Reached(c) /\ EmptyList(differences[c])
      /\ version = "v2" /\ EmptyWithDimensions(blocks[c])
           => Reached(c) /\ EmptyList(differences[c])
      /\ version = "v2" /\ OnlyEmptyDifferences(blocks[c])
           => ParseThrew(c) /\ error[c] = ExtractError
      /\ pc[c] = "returned"
           /\ (OnlyEmptyDifferences(blocks[c]) \/ EmptyWithDimensions(blocks[c]))
           => EmptyList(result[c].differences)

\* C2 witness: the draft has returned for a response whose only JSON payload is the
\* empty differences object, with the explicit empty list in its result
C2_Witness ==
  \E c \in Calls :
    /\ pc[c] = "returned"
    /\ OnlyEmptyDifferences(blocks[c])
    /\ EmptyList(result[c].differences)

\* the three kinds of response the parsing step must tell apart
Category(bs) ==
  IF Count(bs, BlockKinds \ {"prose"}) = 0 THEN "no JSON found"
  ELSE IF Count(bs, {"comma"}) = 1 /\ Count(bs, BlockKinds \ {"comma", "prose"}) = 0
    THEN "JSON found but malformed"
  ELSE IF Count(bs, {"other"}) = 1 /\ Count(bs, BlockKinds \ {"other", "prose"}) = 0
    THEN "required key missing"
  ELSE "none of the three"

\* C3 (as claimed): the error of a response of one of the three kinds differs from
\* the error of every response of another of the three kinds.
C3_ParseFailuresToldApart ==
  \A c \in Calls :
    Extracted(c) /\ Category(blocks[c]) # "none of the three" =>
      /\ ParseThrew(c)
      /\ \A bs \in Responses :
           Category(bs) \notin {"none of the three", Category(blocks[c])}
             => Parse(version, ResponseText(bs)).error # error[c]

\* the differences of d that carry a highlight_area, in order
WithHighlight(d) ==
  SelectSeq(Prop(d, "differences").a, LAMBDA diff : HasProp(diff, "highlight_area"))
\* the processed dimensions of the image comapre.js annotates: those of image2
ProcessedOfAnnotated(c) ==
  IF entry[c] = "compareImages"
    THEN Prop(Prop(processedDimensions[c], "processed_dimensions"), "image2")
    ELSE processedDims[c]
Plus(a, b) == Ratio(a.n * b.d + b.n * a.d, a.d * b.d)

\* C4: every rectangle comapre.js draws has the corners of its highlight box, x
\* times the width of the annotated image over its processed width and y times its
\* height over its processed height; with equal dimensions the box is drawn as is.
C4_BoxesScaledPerAxis ==
  \A c \in Calls :
    version = "v2" /\ Len(rects[c]) > 0 =>
      /\ entry[c] = "compareImages" => imagePath[c] = "image2"
      /\ Len(rects[c]) = Len(WithHighlight(differences[c]))
      /\ \A i \in 1..Len(rects[c]) :
           LET box == Prop(WithHighlight(differences[c])[i], "highlight_area")
               r == rects[c][i]
               w == image[c].width
               h == image[c].height
               pw == Prop(ProcessedOfAnnotated(c), "width").n
               ph == Prop(ProcessedOfAnnotated(c), "height").n
           IN  /\ SameRatio(r.x, Ratio(Prop(box, "x1").n * w, pw))
               /\ SameRatio(r.y, Ratio(Prop(box, "y1").n * h, ph))
               /\ SameRatio(Plus(r.x, r.width), Ratio(Prop(box, "x2").n * w, pw))
               /\ SameRatio(Plus(r.y, r.height), Ratio(Prop(box, "y2").n * h, ph))
               /\ w = pw /\ h = ph =>
                    /\ SameRatio(r.x, Ratio(Prop(box, "x1").n, 1))
                    /\ SameRatio(r.y, Ratio(Prop(box, "y1").n, 1))
                    /\ SameRatio(Plus(r.x, r.width), Ratio(Prop(box, "x2").n, 1))
                    /\ SameRatio(Plus(r.y, r.height), Ratio(Prop(box, "y2").n, 1))

\* C4 witness: comapre.js has drawn the box (0,1)-(2,4), given in a 2x4 processed
\* image, on a 4x4 image: x is doubled, y is kept
C4_Witness ==
  \E c \in Calls :
    /\ version = "v2"
    /\ entry[c] = "compareImages"
    /\ pc[c] = "returned"
    /\ Len(rects[c]) > 0
    /\ image[c] = [width |-> 4, height |-> 4]
    /\ SameRatio(rects[c][1].y, Ratio(1, 1))
    /\ SameRatio(rects[c][1].height, Ratio(3, 1))
    /\ SameRatio(rects[c][1].width, Ratio(4, 1))

\* C5 (as claimed): once the rectangles are drawn there is one for every difference
\* that carries a highlight_area or, failing that, a coordinates box.
C5_EveryBoxedDifferenceDrawn ==
  \A c \in Calls :
    pc[c] = "writeFile" =>
      LET list == Prop(differences[c], "differences").a
      IN  Len(rects[c]) =
            Cardinality({i \in 1..Len(list) :
                           HasProp(list[i], "highlight_area")
                             \/ HasProp(list[i], "coordinates")})

\* C6 (as claimed): with the difference list missing or empty, and nothing failing
\* on the way, createHighlightedImage returns the path of a written file that is
\* the image with no rectangle on it.
C6_NoListGivesPlainCopy ==
  \A c \in Calls :
    /\ pc[c] = "highlighted"
    /\ caught[c] = NoError
    /\ (differences[c].t = "null" \/ ~HasProp(differences[c], "differences")
          \/ EmptyList(differences[c]))
    => /\ outputPath[c].t = "path"
       /\ outputPath[c].stamp \in DOMAIN outputDir
       /\ outputDir[outputPath[c].stamp].rects = <<>>

\* C7 (as claimed): compareImages returns only after a render that caught no
\* failure, with the path of a file that was written.
C7_RenderFailureFailsTheCall ==
  \A c \in Calls :
    pc[c] = "returned" =>
      /\ caught[c] = NoError
      /\ result[c].highlightedImagePath.t = "path"
      /\ result[c].highlightedImagePath.stamp \in DOMAIN outputDir

\* C8 (as claimed): no two calls of createHighlightedImage write the same file.
C8_EveryCallWritesItsOwnFile ==
  \A c1, c2 \in Calls :
    c1 # c2 /\ outputPath[c1].t = "path" /\ outputPath[c2].t = "path"
      => outputPath[c1] # outputPath[c2]

\* C9 (as claimed): no two uploaded files, of one request or of two, are stored at
\* the same path.
C9_EveryUploadHasItsOwnPath ==
  \A q1, q2 \in Requests :
    \A f1 \in DOMAIN files[q1].paths, f2 \in DOMAIN files[q2].paths :
      <<q1, f1>> # <<q2, f2>> => files[q1].paths[f1] # files[q2].paths[f2]

\* C10: a request the handler has finished got exactly one response, the success
\* envelope around the model's message if nothing was thrown and else the failure
\* envelope with the message of what was thrown; before that it got none, and
\* whatever is thrown is caught.
C10_ExactlyOneResponse ==
  \A q \in Requests :
    /\ thrown[q] # NoError => upc[q] \in {"catch", "done"}
    /\ upc[q] # "done" => sent[q] = <<>>
    /\ upc[q] = "done" =>
         /\ Len(sent[q]) = 1
         /\ thrown[q] = NoError =>
              /\ sent[q][1].status = 200
              /\ sent[q][1].body.success = TRUE
              /\ \A k \in DOMAIN Message : sent[q][1].body[k] = Message[k]
         /\ thrown[q] # NoError =>
              /\ sent[q][1].status = 500
              /\ sent[q][1].body = [success |-> FALSE, error |-> thrown[q].message]
         /\ DOMAIN uploads[q] # {Fields[1], Fields[2]} => thrown[q] # NoError

\* C10 witness: a request whose file could not be read got the failure envelope
C10_Witness ==
  \E q \in Requests :
    /\ upc[q] = "done"
    /\ thrown[q] = ReadFileError
    /\ Len(sent[q]) = 1
    /\ sent[q][1].body.success = FALSE

\* the only JSON payload of the response is an unfenced differences object
OnlyUnfencedDifferences(bs) ==
  /\ Count(bs, {"bare", "bareOne"}) = 1
  /\ Count(bs, BlockKinds \ {"bare", "bareOne", "prose"}) = 0
\* the same response with its differences object inside a fence
FencedTwin(bs) ==
  [i \in 1..Len(bs) |-> CASE bs[i] = "bare" -> "none"
                          [] bs[i] = "bareOne" -> "one"
                          [] OTHER -> bs[i]]
AsIfFenced(v, bs) == Parse(v, ResponseText(FencedTwin(bs)))

\* C11 (as claimed): when the only payload of the response is an unfenced,
\* well-formed differences object, nested objects in its list included, a call of
\* compareImages that would go on to render had the object been fenced goes on to
\* render with the same difference list.
C11_UnfencedRecoveredAsFenced ==
  \A c \in Calls :
    /\ Extracted(c)
    /\ OnlyUnfencedDifferences(blocks[c])
    /\ AsIfFenced(version, blocks[c]).error = NoError
    => /\ Reached(c)
       /\ differences[c] = AsIfFenced(version, blocks[c]).differences

\* the comparison a child row refers to exists
RefersToComparison(row) == \E r \in comparisons : row.comparison_id = Num(r.id)

\* C12 (as claimed): whatever persistence operations have run, every row of
\* ui_elements and every row of differences refers to a comparison that exists.
C12_ChildRowsHaveAComparison ==
  \A row \in ui_elements \cup differencesTable : RefersToComparison(row)

\* the caller's call of storeUIElements is over
StoredUIElements(s) == op[s].fn = "storeUIElements" /\ settled[s].state \in {"fulfilled", "rejected"}

\* C13 (as claimed): a call of storeUIElements that completes returns one generated
\* id per input element, in input order; a call that fails returns no ids and leaves
\* none of the rows it inserted in the store.
C13_AllElementsOrNone ==
  \A s \in Callers :
    StoredUIElements(s) =>
      /\ settled[s].state = "fulfilled" =>
           /\ settled[s].value = Arr(elementIds[s])
           /\ Len(elementIds[s]) = Len(op[s].items)
           /\ \A j, k \in 1..Len(elementIds[s]) : j < k => elementIds[s][j] < elementIds[s][k]
      /\ settled[s].state = "rejected" =>
           \A k \in 1..Len(elementIds[s]) :
             ~\E e \in ui_elements : e.id = elementIds[s][k]

====
